---- MODULE Spec2Model ----
(***************************************************************************)
(* api-replay: HTTP record/replay for integration tests.                   *)
(*                                                                         *)
(* The model follows src/src/recorder.ts (class Recorder and the ReplayAPI *)
(* controller that the file also holds), src/src/replayer.ts,              *)
(* src/src/matcher.ts and src/src/utils.ts.                                *)
(*                                                                         *)
(* Asynchronous methods are cut at their I/O suspension points: the        *)
(* fixture read in Replayer.loadRecording, the live transport call in the  *)
(* fetch interceptor, and ensureDirectory / Bun.write in                   *)
(* Recorder.saveRecording.  The code between two such points runs in one   *)
(* step.  Awaits that only read an in-memory request or response body are  *)
(* not cut.  The recordedAt timestamp and debug logging are left out.      *)
(***************************************************************************)
EXTENDS Integers, Sequences, FiniteSets, TLC

VARIABLES
  fs,              \* the file system: <<directory, filename>> -> file
  globalFetch,     \* globalThis.fetch: "native" or "interceptor"
  originalFetch,   \* ReplayAPI.originalFetch
  isActive,        \* ReplayAPI.isActive
  mode,            \* ReplayAPI.mode
  testName,        \* ReplayAPI.testName
  config,          \* ReplayAPI.config
  recorder,        \* ReplayAPI.recorder (a Recorder object or Null)
  replayer,        \* ReplayAPI.replayer (a Replayer object or Null)
  matcher,         \* ReplayAPI.matcher (a RequestMatcher, i.e. its config, or Null)
  wasReplayedFlag, \* ReplayAPI.wasReplayedFlag
  pc,              \* per caller task: where its pending operation is suspended
  loc,             \* per caller task: the locals of its pending operation
  res,             \* per caller task: how its last operation ended
  liveCalls,       \* number of calls handed to the native transport
  nStarts,         \* number of start() calls that passed the isActive check
  sess,            \* history of the session opened by the last accepted start()
  openStarts,      \* start() calls that returned since the last done() returned
  probe            \* a RequestMatcher applied to one stored and one incoming request

vars == <<fs, globalFetch, originalFetch, isActive, mode, testName, config,
          recorder, replayer, matcher, wasReplayedFlag, pc, loc, res,
          liveCalls, nStarts, sess, openStarts, probe>>

apiVars == <<globalFetch, originalFetch, isActive, mode, testName, config,
             recorder, replayer, matcher, wasReplayedFlag>>

-----------------------------------------------------------------------------
(* Bounds *)

MaxStarts == 2
MaxLive == 2
MaxExtracts == 3
MaxNameLen == 3

-----------------------------------------------------------------------------
(* Values *)

\* A nullable reference is <<>> (null) or <<object>>.
Null == <<>>
Some(x) == <<x>>
Val(ref) == ref[1]

\* An absent header or query parameter
None == "none"

NoMode == "null"

Procs == {"p1", "p2"}
SerialProcs == {"p1"}

-----------------------------------------------------------------------------
(* utils.ts: testNameToFilename.  A name is a sequence of characters.      *)

MaxFilenameLen == 200

IsAlnum(c) == c \in {"t", "T", "a", "A", "1", "2"}
IsSpace(c) == c = " "
IsSep(c) == c \in {"-", "_"}

ToLowerChar(c) == CASE c = "T" -> "t" [] c = "A" -> "a" [] OTHER -> c

\* .replace(/[^a-zA-Z0-9\s\-_]/g, '_')
ReplaceSpecial(s) ==
  [i \in 1..Len(s) |->
     IF IsAlnum(s[i]) \/ IsSpace(s[i]) \/ IsSep(s[i]) THEN s[i] ELSE "_"]

\* .toLowerCase()
LowerCase(s) == [i \in 1..Len(s) |-> ToLowerChar(s[i])]

\* .replace(/\s+/g, '-'): every run of spaces becomes one hyphen
SpacesToHyphen(s) ==
  LET \* each character with whether the one before it is a space
      withBefore == [i \in 1..Len(s) |->
                       [c |-> s[i], after |-> IF i = 1 THEN FALSE ELSE IsSpace(s[i - 1])]]
      StartsRun(x) == ~(IsSpace(x.c) /\ x.after)
      kept == SelectSeq(withBefore, StartsRun)
  IN [i \in 1..Len(kept) |-> IF IsSpace(kept[i].c) THEN "-" ELSE kept[i].c]

\* a step that leaves runs of separators as they are
CollapseSepsNot(s, inRun) == s

\* .replace(/[-_]+/g, (match) => match[0])
\* every run of hyphens and underscores becomes its first character
CollapseSeps(s, inRun) ==
  LET \* each character with whether the one before it is a separator
      withBefore == [i \in 1..Len(s) |->
                       [c |-> s[i], after |-> IF i = 1 THEN inRun ELSE IsSep(s[i - 1])]]
      StartsRun(x) == ~(IsSep(x.c) /\ x.after)
      kept == SelectSeq(withBefore, StartsRun)
  IN [i \in 1..Len(kept) |-> kept[i].c]

\* .replace(/^[-_]+|[-_]+$/g, '')
RECURSIVE TrimLeft(_)
TrimLeft(s) == IF s # <<>> /\ IsSep(Head(s)) THEN TrimLeft(Tail(s)) ELSE s

RECURSIVE TrimRight(_)
TrimRight(s) ==
  IF s # <<>> /\ IsSep(s[Len(s)]) THEN TrimRight(SubSeq(s, 1, Len(s) - 1)) ELSE s

Slice(s, n) == SubSeq(s, 1, IF Len(s) < n THEN Len(s) ELSE n)

UnnamedTest == <<"u", "n", "n", "a", "m", "e", "d", "-", "t", "e", "s", "t">>

safeName(name) ==
  Slice(LowerCase(TrimRight(TrimLeft(CollapseSeps(
          SpacesToHyphen(ReplaceSpecial(name)), FALSE)))),
        MaxFilenameLen)

testNameToFilename(name) ==
  (IF safeName(name) = <<>> THEN UnnamedTest ELSE safeName(name)) \o <<".json">>

-----------------------------------------------------------------------------
(* Strings that may hold JSON.  A string is [fmt, data]: fmt "compact" is  *)
(* JSON text as JSON.stringify prints it, "spaced" the same document with  *)
(* extra whitespace, "text" a string JSON.parse rejects; data is the       *)
(* document's <<key, value>> members in the order they are written (for a  *)
(* text, the one pair <<text, "">>).  A body that is null has fmt "null".  *)

Str(fmt, data) == [fmt |-> fmt, data |-> data]

ParseFails == "parse-fails"

JSONparse(s) == IF s.fmt \in {"compact", "spaced"} THEN s.data ELSE ParseFails

JSONstringify(v) == Str("compact", v)

EmptyStr == Str("text", <<>>)
NullBody == Str("null", <<>>)

\* JavaScript truthiness of a string-or-null body
Truthy(b) == b # NullBody /\ b # EmptyStr

-----------------------------------------------------------------------------
(* Headers *)

HeaderNames == {"Content-Type", "X-Auth"}

ToLowerCase(n) ==
  CASE n = "Content-Type" -> "content-type"
    [] n = "X-Auth" -> "x-auth"
    [] n = "X-AUTH" -> "x-auth"
    [] OTHER -> n

LowerNames == {ToLowerCase(n) : n \in HeaderNames}

\* utils.ts headersToObject: one entry per header that is present, keyed by
\* the lower-cased name.  A Headers object is a function HeaderNames -> value
\* or None.
headersToObject(headers) ==
  LET present == {ToLowerCase(n) : n \in {h \in HeaderNames : headers[h] # None}}
  IN [k \in present |->
        headers[CHOOSE h \in HeaderNames : ToLowerCase(h) = k /\ headers[h] # None]]

\* utils.ts objectToHeaders followed by headers.get(name): undefined/null -> None
HeaderOf(obj, k) == IF k \in DOMAIN obj THEN obj[k] ELSE None

NoHeaders == [h \in HeaderNames |-> None]
JsonHeaders == [h \in HeaderNames |-> IF h = "Content-Type" THEN "application/json" ELSE None]

IsJsonType(ct) == ct = "application/json"

-----------------------------------------------------------------------------
(* types.ts: MatchingConfig, as the code reads it *)

\* a recordResponseHeaders setting: "*" is all = TRUE, a list of names is
\* all = FALSE with the names, and "none" (or no setting) is the empty list
ResponseHeadersSetting(all, names) == [all |-> all, names |-> names]
RecordNoResponseHeaders == ResponseHeadersSetting(FALSE, {})
RecordAllResponseHeaders == ResponseHeadersSetting(TRUE, {})

Config(inc, exq, exb, dir, failed) ==
  [includeHeaders |-> inc, excludeQuery |-> exq, excludeBody |-> exb,
   recordingsDir |-> dir, recordFailedResponses |-> failed,
   recordResponseHeaders |-> RecordNoResponseHeaders]

\* a config object that also carries a recordResponseHeaders property
WithRecordResponseHeaders(cfg, setting) == [cfg EXCEPT !.recordResponseHeaders = setting]

\* the config = {} default parameter of start() and of the Replayer constructor
DefaultConfig == Config({}, {}, FALSE, None, FALSE)

DefaultDir == ".api-replay"
RecorderDir == "apirecordings"

\* recorder.ts start(): config.recordingsDir || '.api-replay'
configuredDir(cfg) == IF cfg.recordingsDir = None THEN DefaultDir ELSE cfg.recordingsDir

-----------------------------------------------------------------------------
(* Requests and responses *)

ParamNames == {"ts", "id"}

Url(host, path, query) == [host |-> host, path |-> path, query |-> query]

\* new Request(input, init)
Request(method, host, path, query, headers, body) ==
  [method |-> method, url |-> Url(host, path, query), headers |-> headers, body |-> body]

Response(status, headers, body) == [status |-> status, headers |-> headers, body |-> body]

\* new URL(url).pathname
pathname(url) == url.path

\* new URL(url).searchParams: keys() and get()
\* get() returns the first value of the name, or null
searchParamsKeys(url) == {k \in ParamNames : url.query[k] # <<>>}
searchParamsGet(url, k) == IF url.query[k] = <<>> THEN None ELSE Head(url.query[k])

\* utils.ts objectToHeaders
objectToHeaders(obj) == [h \in HeaderNames |-> HeaderOf(obj, ToLowerCase(h))]

\* headers.get('content-type') || ''
contentType(headers) == headers["Content-Type"]

\* utils.ts parseRequestBody
parseRequestBody(request) ==
  IF request.body = NullBody THEN NullBody
  ELSE IF IsJsonType(contentType(request.headers))
       THEN IF JSONparse(request.body) = ParseFails
            THEN NullBody
            ELSE JSONstringify(JSONparse(request.body))
       ELSE request.body

\* utils.ts extractBody
extractBody(response) ==
  IF IsJsonType(contentType(response.headers)) /\ JSONparse(response.body) # ParseFails
  THEN JSONstringify(JSONparse(response.body))
  ELSE response.body

-----------------------------------------------------------------------------
(* matcher.ts: RequestMatcher *)

\* an extractRequestData that keeps the header names as they were written
extractRequestDataAsWritten(request) ==
  [method |-> request.method, url |-> request.url,
   headers |-> [h \in {n \in HeaderNames : request.headers[n] # None} |-> request.headers[h]],
   body |-> parseRequestBody(request)]

extractRequestData(request) ==
  [method |-> request.method, url |-> request.url,
   headers |-> headersToObject(request.headers), body |-> parseRequestBody(request)]

matchQueryParams(cfg, recordedUrl, incomingUrl) ==
  \A param \in searchParamsKeys(recordedUrl) \cup searchParamsKeys(incomingUrl) :
     param \in cfg.excludeQuery
     \/ searchParamsGet(recordedUrl, param) = searchParamsGet(incomingUrl, param)

\* a header test that looks the configured name up as it is written
matchHeadersAsWritten(cfg, recordedHeaders, incomingHeaders) ==
  cfg.includeHeaders = {}
  \/ \A header \in cfg.includeHeaders :
        HeaderOf(recordedHeaders, header) = HeaderOf(incomingHeaders, header)

matchHeaders(cfg, recordedHeaders, incomingHeaders) ==
  cfg.includeHeaders = {}
  \/ \A header \in cfg.includeHeaders :
        HeaderOf(recordedHeaders, ToLowerCase(header))
          = HeaderOf(incomingHeaders, ToLowerCase(header))

matchBody(cfg, recordedBody, incomingBody) ==
  IF cfg.excludeBody THEN TRUE
  ELSE IF (recordedBody = NullBody) # (incomingBody = NullBody) THEN FALSE
  ELSE IF recordedBody = NullBody /\ incomingBody = NullBody THEN TRUE
  ELSE IF Truthy(recordedBody) /\ Truthy(incomingBody)
            /\ JSONparse(recordedBody) # ParseFails /\ JSONparse(incomingBody) # ParseFails
       THEN JSONstringify(JSONparse(recordedBody)) = JSONstringify(JSONparse(incomingBody))
       ELSE recordedBody = incomingBody

matches(cfg, recorded, incoming) ==
  LET incomingData == extractRequestData(incoming)
  IN /\ recorded.method = incomingData.method
     /\ pathname(recorded.url) = pathname(incomingData.url)
     /\ matchQueryParams(cfg, recorded.url, incomingData.url)
     /\ matchHeaders(cfg, recorded.headers, incomingData.headers)
     /\ matchBody(cfg, recorded.body, incomingData.body)

-----------------------------------------------------------------------------
(* recorder.ts: class Recorder *)

\* new Recorder(): id tells the objects of different sessions apart
NewRecorder(id) == [id |-> id, recordedCalls |-> <<>>]

\* the RecordedCall that recordCall pushes
recordedCallOf(request, response) ==
  [request |-> [method |-> request.method, url |-> request.url,
                headers |-> headersToObject(request.headers),
                body |-> parseRequestBody(request)],
   response |-> [status |-> response.status,
                 headers |-> headersToObject(response.headers),
                 body |-> extractBody(response)]]

\* a recordCall that skips a request it already holds
recordCallOnce(rec, request, response) ==
  IF \E i \in 1..Len(rec.recordedCalls) :
        rec.recordedCalls[i].request = recordedCallOf(request, response).request
  THEN rec
  ELSE [rec EXCEPT !.recordedCalls = Append(@, recordedCallOf(request, response))]

recordCall(rec, request, response) ==
  [rec EXCEPT !.recordedCalls = Append(@, recordedCallOf(request, response))]

\* the first recorded call whose request matches, else Null
RECURSIVE firstMatch(_, _, _)
firstMatch(calls, cfg, request) ==
  IF calls = <<>> THEN Null
  ELSE IF matches(cfg, Head(calls).request, request) THEN Some(Head(calls))
  ELSE firstMatch(Tail(calls), cfg, request)

\* a lookup that never finds a recorded call
findExistingCallNever(rec, request, cfg) == Null

findExistingCall(rec, request, cfg) == firstMatch(rec.recordedCalls, cfg, request)

\* the RecordingFile that saveRecording serializes
recordingFileOf(rec, name) == [meta |-> [testName |-> name], calls |-> rec.recordedCalls]

\* the path saveRecording writes
saveRecordingPath(name) == <<RecorderDir, testNameToFilename(name)>>

\* a file's text: JSON.stringify(recordingFile, null, 2), or text that is not JSON
FileText(recordingFile) == [json |-> TRUE, doc |-> recordingFile]
CorruptText == [json |-> FALSE, doc |-> [meta |-> [testName |-> <<>>], calls |-> <<>>]]

-----------------------------------------------------------------------------
(* replayer.ts: class Replayer *)

\* new Replayer(recordingsDir): config takes its default {}
NewReplayer(id, dir) ==
  [id |-> id, recordingsDir |-> dir, config |-> DefaultConfig, recordingFile |-> Null]

loadRecordingPath(rep, name) == <<rep.recordingsDir, testNameToFilename(name)>>

\* a replayer that hands out nothing once a call has been replayed
getMatchableCallsOnce(rep) ==
  IF rep.recordingFile = Null \/ wasReplayedFlag THEN <<>>
  ELSE Val(rep.recordingFile).calls

\* lines 126-138
getMatchableCalls(rep) ==
  IF rep.recordingFile = Null THEN <<>>
  ELSE IF rep.config.recordFailedResponses THEN Val(rep.recordingFile).calls
  ELSE LET ok(call) == call.response.status >= 200 /\ call.response.status < 400
       IN SelectSeq(Val(rep.recordingFile).calls, ok)

\* findMatchingCall: Some(call), or Null (its searchDetails are below)
findMatchingCall(rep, request, cfg) == firstMatch(getMatchableCalls(rep), cfg, request)

\* lines 144-161
filterHeaders(rep, headers) ==
  [k \in {ToLowerCase(h) : h \in rep.config.includeHeaders} \cap DOMAIN headers |-> headers[k]]

\* Object.fromEntries(new URL(url).searchParams): a name written twice keeps
\* its last value
fromEntries(url) ==
  [k \in searchParamsKeys(url) |-> url.query[k][Len(url.query[k])]]

\* lines 163-174
filterQueryParams(rep, queryParams) ==
  [k \in DOMAIN queryParams \ rep.config.excludeQuery |-> queryParams[k]]

\* lines 176-182
filterBody(rep, body) == IF rep.config.excludeBody THEN NullBody ELSE body

shouldIncludeHeaders(rep) == rep.config.includeHeaders # {}
shouldIncludeBody(rep) == ~rep.config.excludeBody

\* body.length, counted in members of the document instead of characters
length(body) == Len(body.data)

\* lines 65-85: one entry of availableRecordings; a property that is not set
\* is Null
availableRecording(rep, call) ==
  [method |-> call.request.method,
   url |-> call.request.url,
   pathname |-> pathname(call.request.url),
   queryParams |-> filterQueryParams(rep, fromEntries(call.request.url)),
   headers |-> IF shouldIncludeHeaders(rep)
               THEN Some(filterHeaders(rep, call.request.headers)) ELSE Null,
   bodyLength |-> IF shouldIncludeBody(rep) /\ Truthy(filterBody(rep, call.request.body))
                  THEN Some(length(call.request.body)) ELSE Null]

\* lines 54-96: the searchDetails of a findMatchingCall that found nothing
searchDetails(rep, request) ==
  LET requestData == extractRequestData(request)
      availableCalls == getMatchableCalls(rep)
  IN [method |-> requestData.method,
      url |-> requestData.url,
      pathname |-> pathname(requestData.url),
      queryParams |-> filterQueryParams(rep, fromEntries(requestData.url)),
      availableRecordings |->
        [i \in 1..Len(availableCalls) |-> availableRecording(rep, availableCalls[i])],
      headers |-> IF shouldIncludeHeaders(rep)
                  THEN Some(filterHeaders(rep, requestData.headers)) ELSE Null,
      body |-> IF shouldIncludeBody(rep)
               THEN Some(filterBody(rep, requestData.body)) ELSE Null]

\* a createResponse that answers every stored exchange with status 200
createResponseOk(recorded) ==
  LET headers == objectToHeaders(recorded.headers)
  IN Response(200, headers,
       IF IsJsonType(contentType(headers)) /\ Truthy(recorded.body)
       THEN IF JSONparse(recorded.body) # ParseFails
            THEN JSONstringify(JSONparse(recorded.body))
            ELSE recorded.body
       ELSE IF Truthy(recorded.body) THEN recorded.body ELSE EmptyStr)

createResponse(recorded) ==
  LET headers == objectToHeaders(recorded.headers)
  IN Response(recorded.status, headers,
       IF IsJsonType(contentType(headers)) /\ Truthy(recorded.body)
       THEN IF JSONparse(recorded.body) # ParseFails
            THEN JSONstringify(JSONparse(recorded.body))
            ELSE recorded.body
       ELSE IF Truthy(recorded.body) THEN recorded.body ELSE EmptyStr)


-----------------------------------------------------------------------------
(* The inputs of the model *)

Names == {<<"t", "1">>, <<"T", " ", "2">>}

\* the session names the runs use
SessionNames == {<<"t", "1">>}

Dirs == {DefaultDir, RecorderDir}
Paths == Dirs \X {testNameToFilename(n) : n \in Names}

Configs ==
  { DefaultConfig,
    Config({}, {}, FALSE, RecorderDir, FALSE),
    Config({}, {"ts"}, FALSE, RecorderDir, FALSE),
    Config({"X-Auth"}, {}, TRUE, None, TRUE) }

\* a query string: for each name the values it carries, in the order written
QueryValues(v) == IF v = None THEN <<>> ELSE <<v>>
Query(ts, id) == [k \in ParamNames |-> QueryValues(IF k = "ts" THEN ts ELSE id)]
\* ?id=a&id=b: one name written twice
QueryRepeated(a, b) == [k \in ParamNames |-> IF k = "id" THEN <<a, b>> ELSE <<>>]

AuthJson(v) ==
  [h \in HeaderNames |-> IF h = "Content-Type" THEN "application/json" ELSE v]

GetX1 == Request("GET", "h1", "/x", Query("1", None), NoHeaders, NullBody)
GetX2 == Request("GET", "h1", "/x", Query("2", None), NoHeaders, NullBody)
GetX1OtherHost == Request("GET", "h2", "/x", Query("1", None), NoHeaders, NullBody)
PostAB ==
  Request("POST", "h1", "/x", Query(None, None), AuthJson("k1"),
          Str("spaced", << <<"a", "1">>, <<"b", "2">> >>))

\* the requests the sessions issue
Requests == {GetX1, GetX2, GetX1OtherHost}

\* the smaller inputs of the runs with two concurrent callers
ConcurrentRequests == {GetX1, GetX2}
ConcurrentConfigs == {Config({}, {"ts"}, FALSE, None, FALSE)}

Ok200 == Response(200, JsonHeaders, Str("spaced", << <<"ok", "1">> >>))
NotFound404 == Response(404, NoHeaders, Str("text", << <<"Not Found", "">> >>))

Responses == {Ok200, NotFound404}

\* what the native transport does with a call: a response, or a thrown error
TransportError == "transport-error"
TransportOutcomes == {Some(r) : r \in Responses} \cup {Null}
ConcurrentOutcomes == {Some(Ok200)}

\* a fixture left by an earlier run
OldFixture ==
  FileText([meta |-> [testName |-> <<"t", "1">>],
            calls |-> <<recordedCallOf(GetX1, Ok200)>>])

NoFiles == [path \in Paths |-> Null]

InitialFileSystems ==
  { NoFiles,
    [NoFiles EXCEPT ![<<DefaultDir, testNameToFilename(<<"t", "1">>)>>] = Some(OldFixture)],
    [NoFiles EXCEPT ![<<DefaultDir, testNameToFilename(<<"t", "1">>)>>] = Some(CorruptText)] }

\* node:fs existsSync
existsSync(path) == fs[path] # Null

-----------------------------------------------------------------------------
(* How an operation ends for its caller *)

\* op: the operation; how: "ok" or the error thrown; arg: the request of a fetch;
\* value: what was returned; via: where a fetch's response came from
Outcome(op, how, arg, value, via) ==
  [op |-> op, how |-> how, arg |-> arg, value |-> value, via |-> via]
NoOutcome == Outcome("none", "none", Null, Null, "none")

Returned(p, op, value) ==
  res' = [res EXCEPT ![p] = Outcome(op, "ok", Null, Some(value), "none")]
ReturnedVoid(p, op) == res' = [res EXCEPT ![p] = Outcome(op, "ok", Null, Null, "none")]
Threw(p, op, error) == res' = [res EXCEPT ![p] = Outcome(op, error, Null, Null, "none")]
Answered(p, req, response, via) ==
  res' = [res EXCEPT ![p] = Outcome("fetch", "ok", Some(req), Some(response), via)]
FetchThrew(p, req, error) ==
  res' = [res EXCEPT ![p] = Outcome("fetch", error, Some(req), Null, "none")]
\* an error whose message carries the search details
FetchThrewWith(p, req, error, details) ==
  res' = [res EXCEPT ![p] = Outcome("fetch", error, Some(req), Some(details), "none")]

OthersIdle(p) == \A q \in Procs \ {p} : pc[q] = "idle"

NoLocals == [req |-> GetX1, path |-> <<DefaultDir, <<>> >>, text |-> CorruptText,
             name |-> <<>>, recorderId |-> 0,
             result |-> [wasReplayed |-> FALSE, mode |-> NoMode]]

\* the inputs of the sessions that send bodies and headers
PostCD ==
  Request("POST", "h1", "/x", Query(None, None), AuthJson("k1"),
          Str("compact", << <<"c", "3">> >>))
PostRequests == {PostAB, PostCD}
PostConfigs ==
  { Config({}, {}, TRUE, None, FALSE),
    Config({"X-Auth"}, {}, TRUE, RecorderDir, TRUE),
    WithRecordResponseHeaders(Config({}, {}, FALSE, RecorderDir, FALSE),
                              RecordAllResponseHeaders),
    WithRecordResponseHeaders(Config({}, {}, FALSE, RecorderDir, TRUE),
                              ResponseHeadersSetting(FALSE, {"X-Auth"})) }
PostOutcomes == {Some(r) : r \in Responses}

\* the requests and configs a RequestMatcher is applied to on its own
GetXid1 == Request("GET", "h1", "/x", Query(None, "1"), NoHeaders, NullBody)
GetXid12 == Request("GET", "h1", "/x", QueryRepeated("1", "2"), NoHeaders, NullBody)
GetXid13 == Request("GET", "h1", "/x", QueryRepeated("1", "3"), NoHeaders, NullBody)
PostBA ==
  Request("POST", "h1", "/x", Query(None, None), AuthJson("k1"),
          Str("compact", << <<"b", "2">>, <<"a", "1">> >>))
PostABk2 ==
  Request("POST", "h1", "/x", Query(None, None), AuthJson("k2"),
          Str("spaced", << <<"a", "1">>, <<"b", "2">> >>))
MatchRequests ==
  {GetX1, GetX2, GetX1OtherHost, GetXid1, GetXid12, GetXid13, PostAB, PostBA, PostABk2, PostCD}

MatchConfigs ==
  { DefaultConfig,
    Config({}, {"ts"}, FALSE, None, FALSE),
    Config({}, {"id"}, FALSE, None, FALSE),
    Config({"X-Auth"}, {}, FALSE, None, FALSE),
    Config({"x-auth"}, {}, FALSE, None, FALSE),
    Config({"X-AUTH"}, {}, FALSE, None, FALSE),
    Config({}, {}, TRUE, None, FALSE) }

\* matcher.ts matches, step by step: what each of its tests says
matchSteps(cfg, recorded, incoming) ==
  LET incomingData == extractRequestData(incoming)
  IN [method |-> recorded.method = incomingData.method,
      path |-> pathname(recorded.url) = pathname(incomingData.url),
      query |-> matchQueryParams(cfg, recorded.url, incomingData.url),
      headers |-> matchHeaders(cfg, recorded.headers, incomingData.headers),
      body |-> matchBody(cfg, recorded.body, incomingData.body),
      matches |-> matches(cfg, recorded, incoming)]

\* the live Request object behind probe.incoming: whether its body stream has
\* been read, the descriptors extracted from it so far, and what the
\* transport got when the request was sent (Null: not sent)
FreshHandle == [bodyUsed |-> FALSE, extracted |-> <<>>, sent |-> Null]

\* probe: a request that was recorded, a request that comes in, and what a
\* RequestMatcher with the config says about the recorded form of the first
\* and the second
Probe(cfg, recorded, incoming, applied) ==
  [cfg |-> cfg, recorded |-> recorded, incoming |-> incoming, applied |-> applied,
   handle |-> FreshHandle,
   result |-> IF applied
              THEN matchSteps(cfg, recordedCallOf(recorded, Ok200).request, incoming)
              ELSE [method |-> FALSE, path |-> FALSE, query |-> FALSE,
                    headers |-> FALSE, body |-> FALSE, matches |-> FALSE]]

NoProbe == Probe(DefaultConfig, GetX1, GetX1, FALSE)

NoSession ==
  [name |-> <<>>, cfg |-> DefaultConfig, mode |-> NoMode, live |-> 0,
   reqs |-> {}, statuses |-> {}, threw |-> FALSE, serial |-> TRUE, hit |-> FALSE,
   again |-> FALSE]

Init ==
  /\ fs \in InitialFileSystems
  /\ globalFetch = "native"
  /\ originalFetch = Null
  /\ isActive = FALSE
  /\ mode = NoMode
  /\ testName = Null
  /\ config = Null
  /\ recorder = Null
  /\ replayer = Null
  /\ matcher = Null
  /\ wasReplayedFlag = FALSE
  /\ pc = [p \in Procs |-> "idle"]
  /\ loc = [p \in Procs |-> NoLocals]
  /\ res = [p \in Procs |-> NoOutcome]
  /\ liveCalls = 0
  /\ nStarts = 0
  /\ sess = NoSession
  /\ openStarts = 0
  /\ probe = NoProbe

\* no session: a RequestMatcher is about to be applied to a pair of requests
InitMatch ==
  /\ fs = NoFiles
  /\ globalFetch = "native"
  /\ originalFetch = Null
  /\ isActive = FALSE
  /\ mode = NoMode
  /\ testName = Null
  /\ config = Null
  /\ recorder = Null
  /\ replayer = Null
  /\ matcher = Null
  /\ wasReplayedFlag = FALSE
  /\ pc = [p \in Procs |-> "idle"]
  /\ loc = [p \in Procs |-> NoLocals]
  /\ res = [p \in Procs |-> NoOutcome]
  /\ liveCalls = 0
  /\ nStarts = 0
  /\ sess = NoSession
  /\ openStarts = 0
  /\ \E cfg \in MatchConfigs, recorded \in MatchRequests, incoming \in MatchRequests :
        probe = Probe(cfg, recorded, incoming, FALSE)

\* matcher.matches(call.request, request)
ApplyMatcher ==
  /\ ~probe.applied
  /\ probe' = Probe(probe.cfg, probe.recorded, probe.incoming, TRUE)
  /\ UNCHANGED <<fs, apiVars, pc, loc, res, liveCalls, nStarts, sess, openStarts>>

-----------------------------------------------------------------------------
(* recorder.ts: ReplayAPI.start *)

\* lines 189-194: keep the current global fetch, install the interceptor
InstallInterceptor ==
  /\ originalFetch' = Some(globalFetch)
  /\ globalFetch' = "interceptor"
  /\ isActive' = TRUE

\* a guard that runs after the assignments of lines 152-155
RejectStartAfterAssign(p, name, cfg) ==
  /\ Threw(p, "start", "AlreadyActive")
  /\ testName' = Some(name)
  /\ config' = Some(cfg)
  /\ wasReplayedFlag' = FALSE
  /\ matcher' = Some(cfg)
  /\ UNCHANGED <<fs, globalFetch, originalFetch, isActive, mode, recorder, replayer,
                 pc, loc, liveCalls, nStarts, sess, openStarts>>

\* lines 148-150: the guard of start()
RejectStart(p, name, cfg) ==
  /\ Threw(p, "start", "AlreadyActive")
  /\ UNCHANGED <<fs, apiVars, pc, loc, liveCalls, nStarts, sess, openStarts>>

\* a start() that never finds the fixture
startModeAlwaysRecord(name, cfg) == "record"

\* lines 170-187: the mode start() chooses
startMode(name, cfg) ==
  IF existsSync(<<configuredDir(cfg), testNameToFilename(name)>>) THEN "replay" ELSE "record"

\* start() up to its first suspension: the whole call when no fixture exists
StartBegin(p, name, cfg) ==
  /\ pc[p] = "idle"
  /\ IF isActive
     THEN RejectStart(p, name, cfg)
     ELSE /\ nStarts < MaxStarts
          /\ nStarts' = nStarts + 1
          /\ testName' = Some(name)
          /\ config' = Some(cfg)
          /\ wasReplayedFlag' = FALSE
          /\ matcher' = Some(cfg)
          /\ sess' = [name |-> name, cfg |-> cfg, live |-> 0, reqs |-> {},
                      statuses |-> {}, threw |-> FALSE, hit |-> FALSE,
                      again |-> FALSE,
                      mode |-> startMode(name, cfg),
                      serial |-> OthersIdle(p)]
          /\ IF startMode(name, cfg) = "replay"
             THEN /\ mode' = "replay"
                  /\ replayer' = Some(NewReplayer(p, configuredDir(cfg)))
                  /\ pc' = [pc EXCEPT ![p] = "loading"]
                  /\ loc' = [loc EXCEPT ![p] =
                        [NoLocals EXCEPT !.path =
                           loadRecordingPath(NewReplayer(p, configuredDir(cfg)), name)]]
                  /\ UNCHANGED <<recorder, originalFetch, globalFetch, isActive, res,
                                 openStarts>>
             ELSE /\ mode' = "record"
                  /\ recorder' = Some(NewRecorder(nStarts + 1))
                  /\ InstallInterceptor
                  /\ ReturnedVoid(p, "start")
                  /\ openStarts' = openStarts + 1
                  /\ UNCHANGED <<replayer, pc, loc>>
          /\ UNCHANGED <<fs, liveCalls>>
  /\ UNCHANGED probe

\* replayer.ts loadRecording resumes with the file's text, then start() goes on
StartLoaded(p) ==
  /\ pc[p] = "loading"
  /\ pc' = [pc EXCEPT ![p] = "idle"]
  /\ loc' = [loc EXCEPT ![p] = NoLocals]
  /\ IF ~Val(fs[loc[p].path]).json
     THEN /\ Threw(p, "start", "ParseError")
          /\ UNCHANGED <<apiVars, openStarts>>
     ELSE /\ replayer' =
               IF replayer # Null /\ Val(replayer).id = p
               THEN Some([Val(replayer) EXCEPT
                            !.recordingFile = Some(Val(fs[loc[p].path]).doc)])
               ELSE replayer
          /\ InstallInterceptor
          /\ ReturnedVoid(p, "start")
          /\ openStarts' = openStarts + 1
          /\ UNCHANGED <<mode, testName, config, recorder, matcher, wasReplayedFlag>>
  /\ UNCHANGED <<fs, liveCalls, nStarts, sess, probe>>


-----------------------------------------------------------------------------
(* recorder.ts: the interceptor that createFetchInterceptor installs *)

\* the session's history: the requests issued, the live calls among them,
\* whether one was answered from the loaded fixture, and whether the caller
\* got two such answers in a row for one request
NoteCall(p, req, live, hit) ==
  sess' = [sess EXCEPT !.reqs = @ \cup {req},
                       !.live = @ + live,
                       !.hit = @ \/ hit,
                       !.again = @ \/ ( /\ hit /\ res[p].via = "replay"
                                        /\ res[p].arg = Some(req) ),
                       !.serial = @ /\ OthersIdle(p)]

\* lines 230-232: hand the call to this.originalFetch
CallOriginalFetch(p, req) ==
  /\ liveCalls < MaxLive
  /\ IF Val(originalFetch) = "native"
     THEN /\ liveCalls' = liveCalls + 1
          /\ pc' = [pc EXCEPT ![p] = "live"]
          /\ NoteCall(p, req, 1, FALSE)
     ELSE \* originalFetch is an interceptor of this object: the call re-enters it
          \* without end and never reaches the transport
          /\ pc' = [pc EXCEPT ![p] = "reentered"]
          /\ NoteCall(p, req, 0, FALSE)
          /\ UNCHANGED liveCalls
  \* the call remembers its request and the Recorder of the session that issued it
  /\ loc' = [loc EXCEPT ![p] =
        [NoLocals EXCEPT !.req = req,
                         !.recorderId = IF recorder # Null THEN Val(recorder).id ELSE 0]]
  /\ UNCHANGED <<res, replayer, wasReplayedFlag>>

\* a record mode that goes to the transport without the lookup
InterceptRecordNoLookup(p, req) == CallOriginalFetch(p, req)

\* lines 210-228: record mode, the lookup before the live call
InterceptRecord(p, req) ==
  LET existingCall ==
        IF recorder # Null /\ matcher # Null
        THEN findExistingCall(Val(recorder), req, Val(matcher))
        ELSE Null
  IN IF existingCall # Null
     THEN /\ replayer' = IF replayer = Null
                         THEN Some(NewReplayer("interceptor", configuredDir(Val(config))))
                         ELSE replayer
          /\ Answered(p, req, createResponse(Val(existingCall).response), "reuse")
          /\ NoteCall(p, req, 0, FALSE)
          /\ UNCHANGED <<pc, loc, liveCalls, wasReplayedFlag>>
     ELSE CallOriginalFetch(p, req)

\* a hit that leaves the flag as it was
flagAfterHitKept(flag) == flag

\* line 275: this.wasReplayedFlag = true
flagAfterHit(flag) == TRUE

\* lines 244-277: replay mode
InterceptReplay(p, req) ==
  /\ IF replayer = Null \/ matcher = Null
     THEN /\ FetchThrew(p, req, "NotInitialized")
          /\ UNCHANGED wasReplayedFlag
     ELSE IF Val(replayer).recordingFile = Null
     THEN /\ FetchThrew(p, req, "NoRecordingLoaded")
          /\ UNCHANGED wasReplayedFlag
     ELSE IF findMatchingCall(Val(replayer), req, Val(matcher)) = Null
     THEN /\ FetchThrewWith(p, req, "NoMatch", searchDetails(Val(replayer), req))
          /\ UNCHANGED wasReplayedFlag
     ELSE /\ wasReplayedFlag' = flagAfterHit(wasReplayedFlag)
          /\ Answered(p, req,
               createResponse(Val(findMatchingCall(Val(replayer), req, Val(matcher))).response),
               "replay")
  /\ NoteCall(p, req, 0,
       /\ replayer # Null /\ matcher # Null /\ Val(replayer).recordingFile # Null
       /\ findMatchingCall(Val(replayer), req, Val(matcher)) # Null)
  /\ UNCHANGED <<pc, loc, liveCalls, replayer>>

\* a call of globalThis.fetch while the interceptor is installed
FetchCall(p, req) ==
  /\ pc[p] = "idle"
  /\ globalFetch = "interceptor"
  /\ IF originalFetch = Null
     THEN /\ FetchThrew(p, req, "NoOriginalFetch")
          /\ UNCHANGED <<pc, loc, liveCalls, replayer, wasReplayedFlag, sess>>
     ELSE IF mode = "record" THEN InterceptRecord(p, req)
     ELSE IF mode = "replay" THEN InterceptReplay(p, req)
     ELSE /\ FetchThrew(p, req, "InvalidMode")
          /\ UNCHANGED <<pc, loc, liveCalls, replayer, wasReplayedFlag, sess>>
  /\ UNCHANGED <<fs, globalFetch, originalFetch, isActive, mode, testName, config,
                 recorder, matcher, nStarts, openStarts, probe>>

\* an interceptor that records a failed transport call as an exchange
FetchReturnRecordsFailure(p, outcome) ==
  /\ pc[p] = "live"
  /\ pc' = [pc EXCEPT ![p] = "idle"]
  /\ loc' = [loc EXCEPT ![p] = NoLocals]
  /\ recorder' = IF recorder # Null
                 THEN Some(recordCall(Val(recorder), loc[p].req,
                                      IF outcome = Null THEN NotFound404 ELSE Val(outcome)))
                 ELSE recorder
  /\ IF outcome = Null
     THEN /\ FetchThrew(p, loc[p].req, TransportError)
          /\ sess' = [sess EXCEPT !.threw = TRUE]
     ELSE /\ Answered(p, loc[p].req, Val(outcome), "live")
          /\ sess' = [sess EXCEPT !.statuses = @ \cup {Val(outcome).status}]
  /\ UNCHANGED <<fs, globalFetch, originalFetch, isActive, mode, testName, config,
                 replayer, matcher, wasReplayedFlag, liveCalls, nStarts, openStarts,
                 probe>>

\* lines 232-243: the transport answers (or throws), the call is recorded and returned
FetchReturn(p, outcome) ==
  /\ pc[p] = "live"
  /\ pc' = [pc EXCEPT ![p] = "idle"]
  /\ loc' = [loc EXCEPT ![p] = NoLocals]
  /\ IF outcome = Null
     THEN /\ FetchThrew(p, loc[p].req, TransportError)
          /\ sess' = [sess EXCEPT !.threw = TRUE]
          /\ UNCHANGED recorder
     ELSE /\ recorder' = IF recorder # Null
                         THEN Some(recordCall(Val(recorder), loc[p].req, Val(outcome)))
                         ELSE recorder
          /\ Answered(p, loc[p].req, Val(outcome), "live")
          /\ sess' = [sess EXCEPT !.statuses = @ \cup {Val(outcome).status}]
  /\ UNCHANGED <<fs, globalFetch, originalFetch, isActive, mode, testName, config,
                 replayer, matcher, wasReplayedFlag, liveCalls, nStarts, openStarts,
                 probe>>

-----------------------------------------------------------------------------
(* recorder.ts: ReplayAPI.done *)

\* lines 380-382 and 406-408: the queries
wasReplayed == wasReplayedFlag
getMode == mode

\* a reset that keeps the mode
ResetStateKeepsMode ==
  /\ isActive' = FALSE
  /\ mode' = mode
  /\ testName' = Null
  /\ config' = Null
  /\ wasReplayedFlag' = FALSE
  /\ recorder' = Null
  /\ replayer' = Null
  /\ matcher' = Null

\* lines 336-353
ResetState ==
  /\ isActive' = FALSE
  /\ mode' = NoMode
  /\ testName' = Null
  /\ config' = Null
  /\ wasReplayedFlag' = FALSE
  /\ recorder' = Null
  /\ replayer' = Null
  /\ matcher' = Null

\* lines 311-316
RestoreFetch ==
  IF originalFetch # Null
  THEN globalFetch' = Val(originalFetch) /\ originalFetch' = Null
  ELSE UNCHANGED <<globalFetch, originalFetch>>

\* a done() that answers an idle object as if a session had ended
RejectDoneQuietly(p) ==
  /\ Returned(p, "done", [wasReplayed |-> wasReplayedFlag, mode |-> mode])
  /\ UNCHANGED <<apiVars, pc, loc, openStarts, sess>>

\* lines 307-309: the guard of done()
RejectDone(p) ==
  /\ Threw(p, "done", "NotActive")
  /\ UNCHANGED <<apiVars, pc, loc, openStarts, sess>>

\* done() up to its first suspension: the whole call in replay mode
DoneBegin(p) ==
  /\ pc[p] = "idle"
  /\ IF ~isActive
     THEN RejectDone(p)
     ELSE /\ RestoreFetch
          /\ sess' = [sess EXCEPT !.serial = @ /\ OthersIdle(p)]
          /\ IF mode = NoMode
             THEN /\ Threw(p, "done", "ModeNotSet")
                  /\ UNCHANGED <<isActive, mode, testName, config, recorder, replayer,
                                 matcher, wasReplayedFlag, pc, loc, openStarts>>
             ELSE IF mode = "record" /\ recorder # Null /\ testName # Null /\ Val(testName) # <<>>
             THEN \* saveRecording suspends in ensureDirectory
                  /\ pc' = [pc EXCEPT ![p] = "saving"]
                  /\ loc' = [loc EXCEPT ![p] =
                        [NoLocals EXCEPT
                           !.result = [wasReplayed |-> wasReplayedFlag, mode |-> mode],
                           !.name = Val(testName),
                           !.recorderId = Val(recorder).id,
                           !.path = saveRecordingPath(Val(testName))]]
                  /\ UNCHANGED <<isActive, mode, testName, config, recorder, replayer,
                                 matcher, wasReplayedFlag, res, openStarts>>
             ELSE /\ ResetState
                  /\ Returned(p, "done", [wasReplayed |-> wasReplayedFlag, mode |-> mode])
                  /\ openStarts' = 0
                  /\ UNCHANGED <<pc, loc>>
  /\ UNCHANGED <<fs, liveCalls, nStarts, probe>>

\* saveRecording lines 37-49: the file's text is built and handed to Bun.write
DoneSerialize(p) ==
  /\ pc[p] = "saving"
  /\ pc' = [pc EXCEPT ![p] = "writing"]
  /\ loc' = [loc EXCEPT ![p].text =
        FileText(recordingFileOf(
          \* this.recordedCalls of the Recorder that is saving: emptied by reset()
          IF recorder # Null /\ Val(recorder).id = loc[p].recorderId
          THEN Val(recorder) ELSE NewRecorder(loc[p].recorderId),
          loc[p].name))]
  /\ UNCHANGED <<fs, apiVars, res, liveCalls, nStarts, sess, openStarts, probe>>

\* Bun.write completes; done() resets the state and returns
DoneFinish(p) ==
  /\ pc[p] = "writing"
  /\ fs' = [fs EXCEPT ![loc[p].path] = Some(loc[p].text)]
  /\ pc' = [pc EXCEPT ![p] = "idle"]
  /\ loc' = [loc EXCEPT ![p] = NoLocals]
  /\ ResetState
  /\ Returned(p, "done", loc[p].result)
  /\ openStarts' = 0
  /\ UNCHANGED <<globalFetch, originalFetch, liveCalls, nStarts, sess, probe>>

-----------------------------------------------------------------------------
\* the mkdir of ensureDirectory or Bun.write rejects: saveRecording throws at
\* line 329 and done() ends there, before the reset of lines 336-353
DoneFailed(p) ==
  /\ pc[p] \in {"saving", "writing"}
  /\ pc' = [pc EXCEPT ![p] = "idle"]
  /\ loc' = [loc EXCEPT ![p] = NoLocals]
  /\ Threw(p, "done", "WriteError")
  /\ UNCHANGED <<fs, apiVars, liveCalls, nStarts, sess, openStarts, probe>>

(* Specifications *)

\* one caller that awaits every operation before the next
Next ==
  \E p \in SerialProcs :
     \/ \E name \in SessionNames, cfg \in Configs : StartBegin(p, name, cfg)
     \/ StartLoaded(p)
     \/ \E req \in Requests : FetchCall(p, req)
     \/ \E outcome \in TransportOutcomes : FetchReturn(p, outcome)
     \/ DoneBegin(p)
     \/ DoneSerialize(p)
     \/ DoneFinish(p)

Spec == Init /\ [][Next]_vars

\* two callers whose operations overlap
NextConcurrent ==
  \E p \in Procs :
     \/ \E name \in SessionNames, cfg \in ConcurrentConfigs : StartBegin(p, name, cfg)
     \/ StartLoaded(p)
     \/ \E req \in ConcurrentRequests : FetchCall(p, req)
     \/ \E outcome \in ConcurrentOutcomes : FetchReturn(p, outcome)
     \/ DoneBegin(p)
     \/ DoneSerialize(p)
     \/ DoneFinish(p)

SpecConcurrent == Init /\ [][NextConcurrent]_vars

\* one caller whose requests carry headers and bodies
NextPosts ==
  \E p \in SerialProcs :
     \/ \E name \in SessionNames, cfg \in PostConfigs : StartBegin(p, name, cfg)
     \/ StartLoaded(p)
     \/ \E req \in PostRequests : FetchCall(p, req)
     \/ \E outcome \in PostOutcomes : FetchReturn(p, outcome)
     \/ DoneBegin(p)
     \/ DoneSerialize(p)
     \/ DoneFinish(p)

SpecPosts == Init /\ [][NextPosts]_vars

\* one caller, and a storage whose writes can fail
StorageConfigs == {DefaultConfig, Config({}, {}, FALSE, RecorderDir, FALSE)}

NextStorage ==
  \E p \in SerialProcs :
     \/ \E name \in SessionNames, cfg \in StorageConfigs : StartBegin(p, name, cfg)
     \/ StartLoaded(p)
     \/ \E req \in ConcurrentRequests : FetchCall(p, req)
     \/ \E outcome \in ConcurrentOutcomes : FetchReturn(p, outcome)
     \/ DoneBegin(p)
     \/ DoneSerialize(p)
     \/ DoneFinish(p)
     \/ DoneFailed(p)

SpecStorage == Init /\ [][NextStorage]_vars

\* a RequestMatcher on its own
NextMatch == ApplyMatcher

SpecMatch == InitMatch /\ [][NextMatch]_vars

------------------------------------------------------------------------------
(* matcher.ts extractRequestData and utils.ts parseRequestBody on one live
   Request object, whose body is a stream that can be read once *)

\* requests whose body is plain text, and text that is sent as JSON
PostText ==
  Request("POST", "h1", "/x", Query(None, None), NoHeaders,
          Str("text", << <<"hello", "">> >>))
PostBadJson ==
  Request("POST", "h1", "/x", Query(None, None), JsonHeaders,
          Str("text", << <<"hello", "">> >>))
ExtractRequests == MatchRequests \cup {PostText, PostBadJson}

\* a Request object that nothing has read yet
InitExtract ==
  /\ fs = NoFiles
  /\ globalFetch = "native"
  /\ originalFetch = Null
  /\ isActive = FALSE
  /\ mode = NoMode
  /\ testName = Null
  /\ config = Null
  /\ recorder = Null
  /\ replayer = Null
  /\ matcher = Null
  /\ wasReplayedFlag = FALSE
  /\ pc = [p \in Procs |-> "idle"]
  /\ loc = [p \in Procs |-> NoLocals]
  /\ res = [p \in Procs |-> NoOutcome]
  /\ liveCalls = 0
  /\ nStarts = 0
  /\ sess = NoSession
  /\ openStarts = 0
  /\ \E incoming \in ExtractRequests :
        probe = Probe(DefaultConfig, GetX1, incoming, FALSE)

\* a parseRequestBody that reads the request itself
bodyUsedAfterParseInPlace(request, bodyUsed) == bodyUsed \/ request.body # NullBody

\* utils.ts lines 74-85: the body is read from request.clone(), so the
\* request's own stream is left as it was
bodyUsedAfterParse(request, bodyUsed) == bodyUsed

\* utils.ts parseRequestBody on a request whose stream may have been read:
\* clone() of a read request throws, the request itself is used, its read
\* throws, and the outer catch returns null
parseRequestBodyOf(request, bodyUsed) ==
  IF request.body = NullBody THEN NullBody
  ELSE IF bodyUsed THEN NullBody
  ELSE parseRequestBody(request)

\* matcher.ts extractRequestData on that request
extractRequestDataOf(request, bodyUsed) ==
  [method |-> request.method, url |-> request.url,
   headers |-> headersToObject(request.headers),
   body |-> parseRequestBodyOf(request, bodyUsed)]

\* one more extractRequestData(request)
ExtractRequestData ==
  /\ Len(probe.handle.extracted) < MaxExtracts
  /\ probe' = [probe EXCEPT
        !.handle.extracted =
           Append(@, extractRequestDataOf(probe.incoming, probe.handle.bodyUsed)),
        !.handle.bodyUsed = bodyUsedAfterParse(probe.incoming, probe.handle.bodyUsed)]
  /\ UNCHANGED <<fs, apiVars, pc, loc, res, liveCalls, nStarts, sess, openStarts>>

\* the transport sends the request and reads its body: a request whose body
\* was read before cannot be sent
SendRequest ==
  /\ probe.handle.sent = Null
  /\ probe' = [probe EXCEPT
        !.handle.sent = Some(IF probe.handle.bodyUsed
                             THEN [ok |-> FALSE, body |-> NullBody]
                             ELSE [ok |-> TRUE, body |-> probe.incoming.body]),
        !.handle.bodyUsed = @ \/ probe.incoming.body # NullBody]
  /\ UNCHANGED <<fs, apiVars, pc, loc, res, liveCalls, nStarts, sess, openStarts>>

NextExtract == ExtractRequestData \/ SendRequest

SpecExtract == InitExtract /\ [][NextExtract]_vars

------------------------------------------------------------------------------
(* utils.ts: testNameToFilename applied to one name *)

NameChars == {"T", "a", "1", " ", "-", "_", "/"}
ShortNames == UNION {[1..n -> NameChars] : n \in 0..MaxNameLen}

\* names that reach the length limit: MaxFilenameLen - 2 letters and then a
\* short name
LongNames == {[i \in 1..(MaxFilenameLen - 2) |-> "a"] \o t : t \in ShortNames}

FilenameInputs == ShortNames \cup LongNames

InitFilename ==
  /\ fs = NoFiles
  /\ globalFetch = "native"
  /\ originalFetch = Null
  /\ isActive = FALSE
  /\ mode = NoMode
  /\ testName \in {Some(n) : n \in FilenameInputs}
  /\ config = Null
  /\ recorder = Null
  /\ replayer = Null
  /\ matcher = Null
  /\ wasReplayedFlag = FALSE
  /\ pc = [p \in Procs |-> "idle"]
  /\ loc = [p \in Procs |-> NoLocals]
  /\ res = [p \in Procs |-> NoOutcome]
  /\ liveCalls = 0
  /\ nStarts = 0
  /\ sess = NoSession
  /\ openStarts = 0
  /\ probe = NoProbe

\* testNameToFilename(testName)
ApplyFilename(p) ==
  /\ res[p] = NoOutcome
  /\ Returned(p, "testNameToFilename", testNameToFilename(Val(testName)))
  /\ UNCHANGED <<fs, apiVars, pc, loc, liveCalls, nStarts, sess, openStarts, probe>>

NextFilename == \E p \in SerialProcs : ApplyFilename(p)

SpecFilename == InitFilename /\ [][NextFilename]_vars

------------------------------------------------------------------------------
(* replayer.ts: a Replayer used on its own *)

\* the fixtures a file of the replayer's directory may hold
OtherFixture ==
  FileText([meta |-> [testName |-> <<"t", "1">>],
            calls |-> <<recordedCallOf(GetX2, Ok200)>>])
FileContents == {Null, Some(OldFixture), Some(OtherFixture), Some(CorruptText)}
ReplayerPaths == {RecorderDir} \X {testNameToFilename(n) : n \in Names}

\* new Replayer(join(process.cwd(), 'apirecordings')), nothing loaded
InitReplayer ==
  /\ fs \in {f \in [Paths -> FileContents] : \A path \in Paths \ ReplayerPaths : f[path] = Null}
  /\ globalFetch = "native"
  /\ originalFetch = Null
  /\ isActive = FALSE
  /\ mode = NoMode
  /\ testName = Null
  /\ config = Null
  /\ recorder = Null
  /\ replayer = Some(NewReplayer("p1", RecorderDir))
  /\ matcher = Null
  /\ wasReplayedFlag = FALSE
  /\ pc = [p \in Procs |-> "idle"]
  /\ loc = [p \in Procs |-> NoLocals]
  /\ res = [p \in Procs |-> NoOutcome]
  /\ liveCalls = 0
  /\ nStarts = 0
  /\ sess = NoSession
  /\ openStarts = 0
  /\ probe = NoProbe

\* a replayer that forgets what it loaded
cachedRecordingNever(rep) == Null

\* lines 18-20: the recording file the replayer holds, if any
cachedRecording(rep) == rep.recordingFile

\* what loadRecording returns: the recording file, from the cache or from the file
Loaded(p, recordingFile, via) ==
  res' = [res EXCEPT ![p] = Outcome("loadRecording", "ok", Null, Some(recordingFile), via)]

\* lines 17-30: loadRecording up to the await of file.text()
loadRecordingBegin(p, name) ==
  /\ pc[p] = "idle" /\ replayer # Null
  /\ IF cachedRecording(Val(replayer)) # Null
     THEN /\ Loaded(p, Val(cachedRecording(Val(replayer))), "cache")
          /\ UNCHANGED <<pc, loc>>
     ELSE IF ~existsSync(loadRecordingPath(Val(replayer), name))
     THEN /\ Threw(p, "loadRecording", "NotFound")
          /\ UNCHANGED <<pc, loc>>
     ELSE /\ pc' = [pc EXCEPT ![p] = "reading"]
          /\ loc' = [loc EXCEPT ![p] =
                [NoLocals EXCEPT !.path = loadRecordingPath(Val(replayer), name)]]
          /\ UNCHANGED res
  /\ UNCHANGED <<fs, apiVars, liveCalls, nStarts, sess, openStarts, probe>>

\* lines 30-37: the text arrives and is parsed
loadRecordingRead(p) ==
  /\ pc[p] = "reading"
  /\ pc' = [pc EXCEPT ![p] = "idle"]
  /\ loc' = [loc EXCEPT ![p] = NoLocals]
  /\ IF fs[loc[p].path] = Null
     THEN /\ Threw(p, "loadRecording", "ReadError")
          /\ UNCHANGED replayer
     ELSE IF ~Val(fs[loc[p].path]).json
     THEN /\ Threw(p, "loadRecording", "ParseError")
          /\ UNCHANGED replayer
     ELSE /\ replayer' = Some([Val(replayer) EXCEPT
                                 !.recordingFile = Some(Val(fs[loc[p].path]).doc)])
          /\ Loaded(p, Val(fs[loc[p].path]).doc, "file")
  /\ UNCHANGED <<fs, globalFetch, originalFetch, isActive, mode, testName, config,
                 recorder, matcher, wasReplayedFlag, liveCalls, nStarts, sess,
                 openStarts, probe>>

\* lines 140-142: reset()
replayerReset(p) ==
  /\ pc[p] = "idle" /\ replayer # Null
  /\ replayer' = Some([Val(replayer) EXCEPT !.recordingFile = Null])
  /\ ReturnedVoid(p, "reset")
  /\ UNCHANGED <<fs, globalFetch, originalFetch, isActive, mode, testName, config,
                 recorder, matcher, wasReplayedFlag, pc, loc, liveCalls, nStarts, sess,
                 openStarts, probe>>

\* the program that owns the replayer writes or removes a fixture file
WriteFile(path, content) ==
  /\ fs[path] # content
  /\ fs' = [fs EXCEPT ![path] = content]
  /\ UNCHANGED <<apiVars, pc, loc, res, liveCalls, nStarts, sess, openStarts, probe>>

NextReplayer ==
  \/ \E p \in SerialProcs, name \in Names : loadRecordingBegin(p, name)
  \/ \E p \in SerialProcs : loadRecordingRead(p)
  \/ \E p \in SerialProcs : replayerReset(p)
  \/ \E path \in ReplayerPaths, content \in FileContents : WriteFile(path, content)

SpecReplayer == InitReplayer /\ [][NextReplayer]_vars


-----------------------------------------------------------------------------
(* Properties *)

\* the caller's last operation was a done() that returned, and nothing has
\* been started since: sess describes the session that just ended
SessionEnded(p) ==
  res[p].op = "done" /\ res[p].how = "ok" /\ ~isActive /\ pc[p] = "idle"

\* every request of the set matches the recorded form of every other one
PairwiseEquivalent(cfg, reqs) ==
  \A a \in reqs, b \in reqs : matches(cfg, recordedCallOf(a, Ok200).request, b)

\* the calls of the file at a path (none when there is no file)
CallsAt(path) == IF fs[path] = Null THEN <<>> ELSE Val(fs[path]).doc.calls

\* C1: a capturing session with serial calls, all pairwise equivalent under
\* its config and none failing in the transport, has issued exactly one live
\* call when it ends, and the file done() wrote holds exactly one exchange.
C1_SerialDedup ==
  \A p \in Procs :
     ( /\ SessionEnded(p)
       /\ sess.mode = "record" /\ sess.serial
       /\ sess.reqs # {} /\ ~sess.threw
       /\ PairwiseEquivalent(sess.cfg, sess.reqs) )
     => /\ sess.live = 1
        /\ fs[saveRecordingPath(sess.name)] # Null
        /\ Len(CallsAt(saveRecordingPath(sess.name))) = 1

\* three different but equivalent requests were issued and one exchange was saved
C1_Witness ==
  /\ SessionEnded("p1")
  /\ sess.mode = "record" /\ sess.serial /\ ~sess.threw
  /\ Cardinality(sess.reqs) = 3
  /\ PairwiseEquivalent(sess.cfg, sess.reqs)
  /\ sess.live = 1
  /\ Len(CallsAt(saveRecordingPath(sess.name))) = 1

\* the fixture path start() looks at for a session
FixturePath(name, cfg) == <<configuredDir(cfg), testNameToFilename(name)>>

IsPrefix(s, t) == Len(s) <= Len(t) /\ SubSeq(t, 1, Len(s)) = s

\* the status rule: a response qualifies for capture
Qualifies(cfg, status) == cfg.recordFailedResponses \/ (status >= 200 /\ status < 400)

\* replay mode finds no stored match for the request
ReplayMiss(req) ==
  /\ mode = "replay" /\ originalFetch # Null
  /\ replayer # Null /\ matcher # Null
  /\ Val(replayer).recordingFile # Null
  /\ findMatchingCall(Val(replayer), req, Val(matcher)) = Null

\* C2: in a playing session a call without a stored match raises no exception:
\* it issues exactly one live call, and once its live response has been
\* returned the fixture holds the loaded exchanges plus the new one.
C2_PlaybackMissFallsBack ==
  /\ [][\A p \in Procs, req \in Requests :
          (FetchCall(p, req) /\ ReplayMiss(req))
          => (res'[p].how # "NoMatch" /\ liveCalls' = liveCalls + 1)]_vars
  /\ [](\A p \in Procs :
          (res[p].op = "fetch" /\ res[p].via = "live" /\ mode = "replay" /\ replayer # Null
             /\ Val(replayer).recordingFile # Null)
          => Len(CallsAt(FixturePath(sess.name, sess.cfg)))
               = Len(Val(Val(replayer).recordingFile).calls) + 1)

\* a capturing session that ended after one call answered with a 200
CapturedOne200(p) ==
  /\ SessionEnded(p)
  /\ sess.mode = "record" /\ sess.serial /\ ~sess.threw
  /\ sess.live = 1 /\ Cardinality(sess.reqs) = 1 /\ sess.statuses = {200}

\* C3: after a capturing session with one call answered 200 the session's
\* fixture holds exactly one exchange, a following start with the same name
\* and config is playing, and a playing session answers a request stored with
\* a 200 from storage: stored body, no live call, wasReplayed true.
C3_RecordThenReplay ==
  /\ [](\A p \in Procs :
          CapturedOne200(p) => Len(CallsAt(FixturePath(sess.name, sess.cfg))) = 1)
  /\ [][\A p \in Procs, name \in SessionNames, cfg \in Configs :
          (CapturedOne200(p) /\ name = sess.name /\ cfg = sess.cfg /\ StartBegin(p, name, cfg))
          => mode' = "replay"]_vars
  /\ [][\A p \in Procs, req \in Requests :
          ( /\ FetchCall(p, req) /\ mode = "replay" /\ isActive
            /\ \E i \in 1..Len(CallsAt(FixturePath(sess.name, sess.cfg))) :
                  /\ CallsAt(FixturePath(sess.name, sess.cfg))[i].request
                       = recordedCallOf(req, Ok200).request
                  /\ CallsAt(FixturePath(sess.name, sess.cfg))[i].response.status = 200 )
          => /\ res'[p].how = "ok" /\ res'[p].via = "replay"
             /\ liveCalls' = liveCalls
             /\ wasReplayedFlag'
             /\ \E i \in 1..Len(CallsAt(FixturePath(sess.name, sess.cfg))) :
                   Val(res'[p].value).body
                     = createResponse(CallsAt(FixturePath(sess.name, sess.cfg))[i].response).body]_vars

\* C4: a start() while a session is active throws the already-active error
\* and changes nothing of the session: mode, name, config, recorded calls,
\* replay flag, installed fetch, and the files.
C4_StartWhileActiveRejected ==
  [][\A p \in Procs, name \in SessionNames, cfg \in Configs :
       (isActive /\ StartBegin(p, name, cfg))
       => /\ res'[p].op = "start" /\ res'[p].how = "AlreadyActive"
          /\ UNCHANGED <<mode, testName, config, recorder, replayer, matcher,
                         wasReplayedFlag, globalFetch, originalFetch, isActive, fs>>]_vars

\* a start() was rejected while a capturing session held a recorded call
C4_Witness ==
  /\ isActive /\ mode = "record"
  /\ res["p1"].op = "start" /\ res["p1"].how = "AlreadyActive"
  /\ recorder # Null /\ Len(Val(recorder).recordedCalls) = 1
  /\ testName = Some(sess.name) /\ config = Some(sess.cfg)

\* C5: at most one session is active: the start() calls in progress plus
\* those that returned since the last done() never number more than one.
C5_OneSessionAtATime ==
  Cardinality({p \in Procs : pc[p] = "loading"}) + openStarts <= 1

\* C6: the recorded list is read and written without mutual exclusion: a
\* record-mode call whose lookup misses goes to the transport whatever other
\* calls are in flight, and every live response is appended to the list
\* whatever the list already holds.
C6_UnguardedLists ==
  [][\A p \in Procs :
       /\ \A req \in ConcurrentRequests :
             ( /\ FetchCall(p, req) /\ mode = "record" /\ originalFetch = Some("native")
               /\ recorder # Null /\ matcher # Null
               /\ firstMatch(Val(recorder).recordedCalls, Val(matcher), req) = Null )
             => (pc'[p] = "live" /\ liveCalls' = liveCalls + 1)
       /\ \A out \in ConcurrentOutcomes :
             (FetchReturn(p, out) /\ out # Null /\ recorder # Null)
             => Val(recorder').recordedCalls
                  = Append(Val(recorder).recordedCalls, recordedCallOf(loc[p].req, Val(out)))]_vars

\* two overlapping calls for mutually matching requests both went to the
\* transport and both were captured
C6_Witness ==
  /\ isActive /\ sess.mode = "record" /\ ~sess.serial
  /\ \A p \in Procs : pc[p] = "idle" /\ res[p].op = "fetch" /\ res[p].via = "live"
  /\ sess.live = 2 /\ liveCalls = 2
  /\ Cardinality(sess.reqs) = 2
  /\ PairwiseEquivalent(sess.cfg, sess.reqs)
  /\ recorder # Null /\ Len(Val(recorder).recordedCalls) = 2

\* C7: a start() from idle chooses replay exactly when the fixture file of
\* the session name exists at that moment, and record otherwise.
C7_ModeFromFixture ==
  [][\A p \in Procs, name \in SessionNames, cfg \in Configs :
       (~isActive /\ StartBegin(p, name, cfg))
       => mode' = IF fs[FixturePath(name, cfg)] # Null THEN "replay" ELSE "record"]_vars

\* a start() returned in replay mode
C7_Witness ==
  /\ isActive /\ mode = "replay" /\ fs[FixturePath(sess.name, sess.cfg)] # Null
  /\ res["p1"].op = "start" /\ res["p1"].how = "ok"

\* C8: in record mode a call goes to the transport only after its lookup in
\* the recorded calls missed; a hit returns the stored response without a
\* live call; after a miss the live response is captured in the step that
\* returns it to the caller.
C8_LookupBeforeLive ==
  [][\A p \in Procs :
       /\ \A req \in Requests :
             (FetchCall(p, req) /\ mode = "record" /\ originalFetch # Null)
             => /\ recorder # Null /\ matcher # Null
                /\ IF firstMatch(Val(recorder).recordedCalls, Val(matcher), req) # Null
                   THEN /\ liveCalls' = liveCalls /\ pc'[p] = "idle"
                        /\ res'[p] = Outcome("fetch", "ok", Some(req),
                             Some(createResponse(Val(firstMatch(Val(recorder).recordedCalls,
                                                      Val(matcher), req)).response)),
                             "reuse")
                   ELSE /\ liveCalls' = liveCalls + 1 /\ pc'[p] = "live"
                        /\ res'[p] = res[p]
       /\ \A out \in TransportOutcomes :
             (FetchReturn(p, out) /\ out # Null /\ mode = "record")
             => /\ recorder # Null
                /\ Val(recorder').recordedCalls
                     = Append(Val(recorder).recordedCalls, recordedCallOf(loc[p].req, Val(out)))
                /\ res'[p] = Outcome("fetch", "ok", Some(loc[p].req), out, "live")]_vars

\* a call of a capturing session was answered from the recorded calls
C8_Witness ==
  /\ isActive /\ mode = "record"
  /\ res["p1"].op = "fetch" /\ res["p1"].via = "reuse"
  /\ sess.live = 1 /\ Cardinality(sess.reqs) = 2

\* C9: ending a capturing session in which no response qualified for capture
\* leaves no fixture file for the session name.
C9_NoFileOnEmpty ==
  \A p \in Procs :
     ( /\ SessionEnded(p) /\ sess.mode = "record" /\ sess.serial
       /\ \A st \in sess.statuses : ~Qualifies(sess.cfg, st) )
     => /\ fs[FixturePath(sess.name, sess.cfg)] = Null
        /\ fs[saveRecordingPath(sess.name)] = Null

\* C10: a write to an existing fixture keeps its exchanges, unchanged and in
\* order, as a prefix and puts the newly captured ones after them.
C10_AppendOnly ==
  [][\A path \in Paths :
       (fs[path] # Null /\ fs'[path] # fs[path])
       => /\ fs'[path] # Null
          /\ IsPrefix(Val(fs[path]).doc.calls, Val(fs'[path]).doc.calls)
          /\ recorder # Null
          /\ Val(fs'[path]).doc.calls
               = Val(fs[path]).doc.calls \o Val(recorder).recordedCalls]_vars

\* C11: recordCall appends nothing when the status is outside [200,400) and
\* recordFailedResponses is false, and appends exactly one exchange when the
\* status is inside [200,400) or recordFailedResponses is true.
C11_CaptureStatusRule ==
  [][\A p \in Procs, out \in TransportOutcomes :
       (FetchReturn(p, out) /\ out # Null /\ recorder # Null /\ config # Null)
       => /\ recorder' # Null
          /\ IF Qualifies(Val(config), Val(out).status)
             THEN /\ Len(Val(recorder').recordedCalls) = Len(Val(recorder).recordedCalls) + 1
                  /\ IsPrefix(Val(recorder).recordedCalls, Val(recorder').recordedCalls)
             ELSE Val(recorder').recordedCalls = Val(recorder).recordedCalls]_vars

\* the calls the replayer loaded
LoadedCalls == Val(Val(replayer).recordingFile).calls

\* a replay session whose fixture is loaded is about to answer a call
ReplayReady ==
  /\ mode = "replay" /\ isActive /\ config # Null /\ matcher # Null
  /\ replayer # Null /\ Val(replayer).recordingFile # Null

\* C12: in a replay session a stored exchange with a status in [400,600) is
\* never returned when the session's recordFailedResponses is false, and is
\* matchable (a request that matches it is answered from storage) when the
\* session's recordFailedResponses is true.
C12_FailedStatusMatchable ==
  [][\A p \in Procs, req \in PostRequests \cup Requests :
       (FetchCall(p, req) /\ ReplayReady)
       => /\ (~Val(config).recordFailedResponses /\ res'[p].via = "replay")
               => Val(res'[p].value).status < 400
          /\ ( /\ Val(config).recordFailedResponses
               /\ \E i \in 1..Len(LoadedCalls) :
                     /\ LoadedCalls[i].response.status >= 400
                     /\ LoadedCalls[i].response.status < 600
                     /\ matches(Val(config), LoadedCalls[i].request, req) )
               => (res'[p].how = "ok" /\ res'[p].via = "replay")]_vars

\* C13: matches is false whenever the stored and the incoming URL differ in
\* host or path; two requests to different hosts never match.
C13_OtherUrlNeverMatches ==
  ( /\ probe.applied
    /\ \/ probe.recorded.url.host # probe.incoming.url.host
       \/ probe.recorded.url.path # probe.incoming.url.path )
  => ~probe.result.matches

\* two documents hold the same members, in whatever order
SameMembers(d, e) ==
  Len(d) = Len(e) /\ {d[i] : i \in DOMAIN d} = {e[i] : i \in DOMAIN e}

\* C14: with excludeBody false, two non-null bodies that both parse and hold
\* the same data pass the body test whatever the order of their keys.
C14_KeyOrderIrrelevant ==
  ( /\ probe.applied /\ ~probe.cfg.excludeBody
    /\ probe.recorded.body # NullBody /\ probe.incoming.body # NullBody
    /\ JSONparse(probe.recorded.body) # ParseFails
    /\ JSONparse(probe.incoming.body) # ParseFails
    /\ SameMembers(JSONparse(probe.recorded.body), JSONparse(probe.incoming.body)) )
  => probe.result.body

\* C15: two requests with equal method, host and path pass the query test
\* exactly when every parameter name that is not excluded carries equal
\* values in both URLs (a name on one side only is a mismatch, an excluded
\* name never counts).
C15_QueryStep ==
  ( /\ probe.applied /\ probe.result.method /\ probe.result.path
    /\ probe.recorded.url.host = probe.incoming.url.host )
  => ( probe.result.query
       <=> \A k \in ParamNames \ probe.cfg.excludeQuery :
              probe.recorded.url.query[k] = probe.incoming.url.query[k] )

\* the spellings of one header name
HeaderSpellings == {{"X-Auth", "x-auth", "X-AUTH"}, {"Content-Type", "content-type"}}

\* the value a request carries for a header name, whatever the spelling
CarriedHeader(request, name) ==
  LET n == CHOOSE h \in HeaderNames : \E c \in HeaderSpellings : h \in c /\ name \in c
  IN request.headers[n]

\* C16: the header test passes when includeHeaders is empty; otherwise it
\* passes exactly when every header named in includeHeaders, in whatever
\* case, has the same value in the recorded and in the incoming request.
C16_HeaderStep ==
  probe.applied
  => ( probe.result.headers
       <=> \/ probe.cfg.includeHeaders = {}
           \/ \A name \in probe.cfg.includeHeaders :
                 CarriedHeader(probe.recorded, name) = CarriedHeader(probe.incoming, name) )

\* a header named in upper case differs and the test fails, although the
\* other header and everything else are equal
C16_Witness ==
  /\ probe.applied
  /\ probe.cfg.includeHeaders = {"X-AUTH"}
  /\ probe.recorded.headers["X-Auth"] = "k1" /\ probe.incoming.headers["X-Auth"] = "k2"
  /\ probe.recorded.headers["Content-Type"] = probe.incoming.headers["Content-Type"]
  /\ ~probe.result.headers
  /\ probe.result.method /\ probe.result.path /\ probe.result.query /\ probe.result.body

\* a capturing session with excludeBody that ended after two POSTs to one URL
\* with different bodies, answered 200
CapturedTwoPosts(p) ==
  /\ SessionEnded(p)
  /\ sess.mode = "record" /\ sess.serial /\ ~sess.threw
  /\ sess.cfg.excludeBody
  /\ sess.reqs = {PostAB, PostCD} /\ sess.statuses = {200}

\* C17: with excludeBody, two POSTs to one URL with different bodies leave a
\* single persisted exchange in a capturing session; a following session of
\* the same name and config is playing; and a playing session answers a
\* request with either body from that stored exchange.
C17_ExcludeBodyScenario ==
  /\ [](\A p \in Procs :
          CapturedTwoPosts(p) => Len(CallsAt(saveRecordingPath(sess.name))) = 1)
  /\ [][\A p \in Procs, name \in SessionNames, cfg \in PostConfigs :
          ( /\ CapturedTwoPosts(p) /\ name = sess.name /\ cfg = sess.cfg
            /\ StartBegin(p, name, cfg) )
          => mode' = "replay"]_vars
  /\ [][\A p \in Procs, req \in PostRequests :
          ( /\ FetchCall(p, req) /\ ReplayReady /\ Val(config).excludeBody
            /\ Len(LoadedCalls) = 1
            /\ LoadedCalls[1].request.method = req.method
            /\ LoadedCalls[1].request.url = req.url
            /\ LoadedCalls[1].request.headers = headersToObject(req.headers)
            /\ LoadedCalls[1].response.status = 200 )
          => /\ res'[p].how = "ok" /\ res'[p].via = "replay"
             /\ res'[p].value = Some(createResponse(LoadedCalls[1].response))
             /\ liveCalls' = liveCalls]_vars

\* the exchanges a capturing session persisted: the calls of the file its
\* done() wrote
Persisted(p) ==
  IF SessionEnded(p) /\ sess.mode = "record"
  THEN CallsAt(saveRecordingPath(sess.name))
  ELSE <<>>

\* the lower-cased keys of the headers a config names
IncludedKeys(cfg) ==
  {k \in LowerNames :
     \E name \in cfg.includeHeaders, c \in HeaderSpellings : k \in c /\ name \in c}

\* C18: the request headers of every persisted exchange hold only headers
\* named in includeHeaders, under lower-cased keys; none when includeHeaders
\* is empty.
C18_PersistedHeadersFiltered ==
  \A p \in Procs : \A i \in 1..Len(Persisted(p)) :
     DOMAIN Persisted(p)[i].request.headers \subseteq IncludedKeys(sess.cfg)

\* C19: the URL of every persisted exchange holds no query parameter named
\* in excludeQueryParams and keeps every other parameter of the request it
\* was captured from.
C19_PersistedUrlFiltered ==
  \A p \in Procs : \A i \in 1..Len(Persisted(p)) :
     /\ \A k \in sess.cfg.excludeQuery : Persisted(p)[i].request.url.query[k] = <<>>
     /\ \E req \in sess.reqs :
           /\ Persisted(p)[i].request.url.host = req.url.host
           /\ Persisted(p)[i].request.url.path = req.url.path
           /\ \A k \in ParamNames \ sess.cfg.excludeQuery :
                 Persisted(p)[i].request.url.query[k] = req.url.query[k]

\* C20: with excludeBody the request body of every persisted exchange is
\* null.
C20_PersistedBodyOmitted ==
  \A p \in Procs : \A i \in 1..Len(Persisted(p)) :
     sess.cfg.excludeBody => Persisted(p)[i].request.body = NullBody

\* what a set of diagnostics (the search details, or one of its listed
\* candidates) shows of the headers, of the body and of the query
HeadersHidden(cfg, shown) ==
  shown # Null => (cfg.includeHeaders # {} /\ DOMAIN Val(shown) \subseteq IncludedKeys(cfg))
QueryHidden(cfg, url, queryParams) ==
  \A k \in cfg.excludeQuery : k \notin DOMAIN queryParams /\ url.query[k] = <<>>

KeptResponseHeaders(setting, response) ==
  LET all == headersToObject(response.headers)
      named == {k \in LowerNames :
                  \E name \in setting.names, c \in HeaderSpellings : k \in c /\ name \in c}
  IN [k \in (IF setting.all THEN DOMAIN all ELSE DOMAIN all \cap named) |-> all[k]]

\* C22: the response headers of a persisted exchange are {} when
\* recordResponseHeaders is "none" (the default), all the live response
\* headers under lower-cased names when it is "*", and exactly the live
\* response headers named in the set when it is a set of names.
C22_ResponseHeadersSetting ==
  \A p \in Procs : \A i \in 1..Len(Persisted(p)) :
     \E r \in Responses :
        /\ r.status = Persisted(p)[i].response.status
        /\ Persisted(p)[i].response.headers
             = KeptResponseHeaders(sess.cfg.recordResponseHeaders, r)

\* C23: the wasReplayed that done() returns is true exactly when a call of
\* the session was answered by a findMatchingCall hit in replay mode; a
\* recording session, with or without reused answers, returns false.
C23_WasReplayedIffHit ==
  \A p \in Procs :
     SessionEnded(p)
     => /\ Val(res[p].value).wasReplayed <=> sess.hit
        /\ Val(res[p].value).mode = sess.mode
        /\ sess.mode = "record" => ~Val(res[p].value).wasReplayed

\* a replay session that answered a call from its fixture has ended
C23_Witness ==
  /\ SessionEnded("p1")
  /\ sess.mode = "replay" /\ sess.hit /\ sess.live = 0
  /\ Val(res["p1"].value).wasReplayed

\* C24: once done() has returned, globalThis.fetch is the transport that was
\* installed before the session's start(), and no interceptor of this object
\* is installed or kept as the original.
C24_FetchRestored ==
  \A p \in Procs :
     SessionEnded(p) => (globalFetch = "native" /\ originalFetch = Null)

\* C25: when done() returns, for a recording and for a replay session alike,
\* the object is idle: getMode() is null, wasReplayed() is false, the
\* recorder and the replayer with their lists are gone, and a start() issued
\* while the object is idle is accepted: it takes the name, the config and
\* a mode.
C25_IdleAfterDone ==
  /\ [][\A p \in Procs :
          ( /\ DoneBegin(p) \/ DoneFinish(p)
            /\ pc'[p] = "idle" /\ res'[p].op = "done" /\ res'[p].how = "ok" )
          => /\ ~isActive'
             /\ getMode' = NoMode
             /\ ~wasReplayed'
             /\ recorder' = Null /\ replayer' = Null
             /\ testName' = Null /\ config' = Null /\ matcher' = Null]_vars
  /\ [][\A p \in Procs, name \in SessionNames, cfg \in Configs \cup ConcurrentConfigs :
          (~isActive /\ StartBegin(p, name, cfg))
          => /\ mode' = startMode(name, cfg)
             /\ testName' = Some(name) /\ config' = Some(cfg)]_vars

\* a second session, a replay that answered a call, has ended and left the
\* object idle
C25_Witness ==
  /\ SessionEnded("p1") /\ nStarts = 2
  /\ sess.mode = "replay" /\ sess.hit
  /\ getMode = NoMode /\ ~wasReplayed
  /\ recorder = Null /\ replayer = Null

\* C26: in a replay session, a request that was just answered from the
\* fixture and is issued again is answered from the fixture again, with the
\* same status, headers and body.
C26_ReplayIdempotent ==
  [][\A p \in Procs, req \in Requests :
       ( /\ FetchCall(p, req) /\ ReplayReady
         /\ res[p].op = "fetch" /\ res[p].via = "replay" /\ res[p].arg = Some(req) )
       => /\ res'[p].how = "ok" /\ res'[p].via = "replay"
          /\ Val(res'[p].value).status = Val(res[p].value).status
          /\ Val(res'[p].value).headers = Val(res[p].value).headers
          /\ Val(res'[p].value).body = Val(res[p].value).body
          /\ fs' = fs /\ replayer' = replayer]_vars

\* one request was answered from the fixture twice in a row
C26_Witness ==
  /\ isActive /\ mode = "replay" /\ sess.again
  /\ res["p1"].op = "fetch" /\ res["p1"].via = "replay"
  /\ Val(res["p1"].value) = createResponse(LoadedCalls[1].response)

\* the exchanges the file that the recorder writes held before the session
PreviouslyLoaded ==
  IF testName = Null THEN <<>>
  ELSE IF fs[saveRecordingPath(Val(testName))] = Null THEN <<>>
  ELSE IF ~Val(fs[saveRecordingPath(Val(testName))]).json THEN <<>>
  ELSE CallsAt(saveRecordingPath(Val(testName)))

\* C27: the lookup of a recording session answers with the first exchange
\* that matches the request, searching the exchanges of this session in
\* capture order and then the exchanges the file already held in file order;
\* the call goes to the transport only when neither list holds a match.
C27_ReuseSearchesBothLists ==
  [][\A p \in Procs, req \in Requests :
       ( /\ FetchCall(p, req) /\ mode = "record" /\ originalFetch # Null
         /\ recorder # Null /\ matcher # Null )
       => LET hit == firstMatch(Val(recorder).recordedCalls \o PreviouslyLoaded,
                                Val(matcher), req)
          IN IF hit # Null
             THEN /\ res'[p].how = "ok" /\ res'[p].via = "reuse"
                  /\ res'[p].value = Some(createResponse(Val(hit).response))
                  /\ liveCalls' = liveCalls
             ELSE pc'[p] \in {"live", "reentered"} /\ res'[p] = res[p]]_vars

\* C28: a replayer that holds a recording file answers loadRecording with
\* that same file at once, without reading storage, whatever the storage now
\* holds; storage is read only while nothing is held, so at most once until
\* reset() drops the file.
C28_LoadedOnce ==
  /\ [][\A p \in Procs, name \in Names :
          (loadRecordingBegin(p, name) /\ Val(replayer).recordingFile # Null)
          => /\ pc'[p] = "idle"
             /\ res'[p].how = "ok" /\ res'[p].via = "cache"
             /\ res'[p].value = Val(replayer).recordingFile
             /\ replayer' = replayer]_vars
  /\ [][\A p \in Procs :
          loadRecordingRead(p) => Val(replayer).recordingFile = Null]_vars
  /\ [][replayer' # replayer /\ Val(replayer).recordingFile # Null
          => \E p \in Procs : replayerReset(p)]_vars

\* a second loadRecording was answered with the file loaded before, although
\* storage no longer holds that file
C28_Witness ==
  /\ res["p1"].op = "loadRecording" /\ res["p1"].how = "ok" /\ res["p1"].via = "cache"
  /\ res["p1"].value = Some(OldFixture.doc)
  /\ \A path \in Paths : fs[path] # Some(OldFixture)

\* C29: when the transport throws during an intercepted call, the caller
\* gets that error for that request, the transport was called once for it
\* and is not called again, and nothing is captured: the recorded list and
\* the files stay as they were, and a session whose calls all threw saves no
\* exchange.
C29_TransportErrorPropagates ==
  /\ [][\A p \in Procs :
          FetchReturn(p, Null)
          => /\ res'[p].op = "fetch" /\ res'[p].how = TransportError
             /\ res'[p].arg = Some(loc[p].req) /\ res'[p].value = Null
             /\ pc'[p] = "idle"
             /\ liveCalls' = liveCalls /\ sess'.live = sess.live
             /\ recorder' = recorder /\ fs' = fs]_vars
  /\ [][\A p \in Procs, req \in Requests :
          (FetchCall(p, req) /\ pc'[p] = "live") => liveCalls' = liveCalls + 1]_vars
  /\ [](\A p \in Procs :
          (SessionEnded(p) /\ sess.mode = "record" /\ sess.serial /\ sess.statuses = {})
          => Len(Persisted(p)) = 0)

\* a recording session whose only call failed in the transport has ended
C29_Witness ==
  /\ SessionEnded("p1") /\ sess.mode = "record"
  /\ sess.threw /\ sess.live = 1 /\ sess.statuses = {}
  /\ Len(Persisted("p1")) = 0

\* C30: however many times extractRequestData has run on a request that
\* has not been sent, every descriptor it returned is the same, with the
\* body of the request, and the request can still be sent with its body.
C30_ExtractRepeatable ==
  /\ probe.handle.sent = Null
     => /\ ~probe.handle.bodyUsed
        /\ \A i \in 1..Len(probe.handle.extracted) :
              /\ probe.handle.extracted[i] = probe.handle.extracted[1]
              /\ probe.handle.extracted[i].body = parseRequestBody(probe.incoming)
  /\ probe.handle.sent # Null
     => (Val(probe.handle.sent).ok /\ Val(probe.handle.sent).body = probe.incoming.body)

\* a request with a JSON body was extracted three times and then sent
C30_Witness ==
  /\ Len(probe.handle.extracted) = 3
  /\ probe.incoming.body # NullBody
  /\ probe.handle.extracted[3].body = JSONstringify(JSONparse(probe.incoming.body))
  /\ probe.handle.sent # Null /\ Val(probe.handle.sent).ok

\* C31: no sequence of start(), fetch and done() calls makes an intercepted
\* call throw the invalid-mode error: whenever the interceptor handles a
\* call, the mode is record or replay.
C31_NoInvalidMode ==
  /\ [](\A p \in Procs : res[p].how # "InvalidMode")
  /\ []((globalFetch = "interceptor" /\ originalFetch # Null) => mode \in {"record", "replay"})

\* the filename that was derived, and its stem: all of it but the extension
DerivedFilename == Val(res["p1"].value)
Stem == SubSeq(DerivedFilename, 1, Len(DerivedFilename) - 1)

\* what the stem is made of: lower-case letters, digits, '-' and '_', no
\* two separators side by side, no separator in front, at most the
\* bounded length, and the placeholder for a name without letter or digit
StemWellFormed ==
  /\ DerivedFilename[Len(DerivedFilename)] = ".json"
  /\ Stem # <<>>
  /\ Len(Stem) <= MaxFilenameLen
  /\ \/ Stem = UnnamedTest
     \/ \A i \in 1..Len(Stem) : Stem[i] \in {"t", "a", "1", "2", "-", "_"}
  /\ \A i \in 1..(Len(Stem) - 1) : ~(IsSep(Stem[i]) /\ IsSep(Stem[i + 1]))
  /\ ~IsSep(Stem[1])
  /\ (\A i \in 1..Len(Val(testName)) : ~IsAlnum(Val(testName)[i])) => Stem = UnnamedTest

C33_DoneWhileIdleRejected ==
  [][\A p \in Procs :
       (~isActive /\ DoneBegin(p))
       => /\ res'[p].op = "done" /\ res'[p].how = "NotActive"
          /\ pc'[p] = "idle"
          /\ UNCHANGED <<mode, testName, config, recorder, replayer, matcher,
                         wasReplayedFlag, globalFetch, originalFetch, isActive, fs>>]_vars

\* after a session that ended, a second done() was rejected
C33_Witness ==
  /\ res["p1"].op = "done" /\ res["p1"].how = "NotActive"
  /\ ~isActive /\ globalFetch = "native" /\ nStarts = 1 /\ sess.live = 1
  /\ fs[saveRecordingPath(sess.name)] # Null

\* C34: after a start() that failed because the fixture could not be
\* parsed, the object is idle: it is not active, getMode() is null, and the
\* interceptor is not installed; a start() that follows is accepted.
C34_IdleAfterParseError ==
  /\ [](\A p \in Procs :
          (res[p].op = "start" /\ res[p].how = "ParseError" /\ pc[p] = "idle")
          => (~isActive /\ getMode = NoMode /\ globalFetch = "native"))
  /\ [][\A p \in Procs, name \in SessionNames, cfg \in Configs :
          (res[p].op = "start" /\ res[p].how = "ParseError" /\ StartBegin(p, name, cfg))
          => testName' = Some(name) /\ config' = Some(cfg)]_vars

\* C35: when the write of the fixture fails during done(), done() throws the
\* error, and the object is idle afterwards: not active, no mode, the
\* interceptor removed; a start() that follows is not rejected as already
\* active.
C35_IdleAfterFailedSave ==
  /\ [][\A p \in Procs :
          DoneFailed(p)
          => /\ res'[p].op = "done" /\ res'[p].how = "WriteError"
             /\ globalFetch' = "native"
             /\ ~isActive' /\ getMode' = NoMode]_vars
  /\ [][\A p \in Procs, name \in SessionNames, cfg \in StorageConfigs :
          (res[p].op = "done" /\ res[p].how = "WriteError" /\ StartBegin(p, name, cfg))
          => res'[p].how # "AlreadyActive"]_vars

\* C36: a live call is recorded only into the session that issued it: when the
\* transport answers and the call is appended to a Recorder's list, that
\* Recorder is the one that was current when the call went out, never the
\* Recorder of a session started after a done().
C36_CapturedInIssuingSession ==
  [][\A p \in Procs, outcome \in TransportOutcomes :
       (FetchReturn(p, outcome) /\ recorder' # recorder)
       => Val(recorder).id = loc[p].recorderId]_vars

\* two bodies that are the same text, or JSON texts of the same document
SameBody(a, b) == a = b \/ (JSONparse(a) # ParseFails /\ JSONparse(a) = JSONparse(b))
SameAnswer(served, live) == served.status = live.status /\ SameBody(served.body, live.body)

\* the exchanges a call can be answered from: the Recorder's list while
\* recording, the loaded fixture while replaying
StoredCalls ==
  IF mode = "record" /\ recorder # Null THEN Val(recorder).recordedCalls
  ELSE IF mode = "replay" /\ replayer # Null /\ Val(replayer).recordingFile # Null
  THEN LoadedCalls
  ELSE <<>>

\* C37: a response served from storage (a reuse while recording, a hit while
\* replaying) has the status and, up to JSON re-serialization, the body of the
\* live response its exchange was captured from: what recordCall stores of a
\* live response is rebuilt by createResponse into the same answer, and every
\* answer from storage is the rebuilt response of a stored exchange that was
\* captured from such a live response.
C37_ServedSameAsLive ==
  /\ [][\A p \in Procs, outcome \in TransportOutcomes :
          (FetchReturn(p, outcome) /\ recorder' # recorder)
          => LET calls == Val(recorder').recordedCalls
             IN SameAnswer(createResponse(calls[Len(calls)].response), Val(outcome))]_vars
  /\ [][\A p \in Procs, req \in Requests :
          (FetchCall(p, req) /\ res'[p].via \in {"reuse", "replay"})
          => \E i \in 1..Len(StoredCalls), live \in Responses :
                /\ StoredCalls[i].response = recordedCallOf(req, live).response
                /\ res'[p].value = Some(createResponse(StoredCalls[i].response))
                /\ SameAnswer(Val(res'[p].value), live)]_vars

\* a 404 answered with plain text was captured and is served again from the
\* Recorder's list, and a JSON answer is served from a loaded fixture
C37_Witness ==
  \/ /\ isActive /\ mode = "record"
     /\ res["p1"].op = "fetch" /\ res["p1"].via = "reuse"
     /\ Val(res["p1"].value).status = 404
     /\ Val(res["p1"].value).body = NotFound404.body
  \/ /\ isActive /\ mode = "replay"
     /\ res["p1"].op = "fetch" /\ res["p1"].via = "replay"
     /\ Val(res["p1"].value).body = JSONstringify(JSONparse(Ok200.body))
     /\ Val(res["p1"].value).body # Ok200.body

\* C38: under every config, the request descriptor that recordCall stores for
\* a request matches that same request: the matcher applied to the recorded
\* form of r and to r itself answers true.
C38_CapturedMatchesItself ==
  (probe.applied /\ probe.recorded = probe.incoming) => probe.result.matches

\* a POST with a JSON body written with whitespace and an X-Auth header is
\* matched against its own recorded form, with the header named in the config
C38_Witness ==
  /\ probe.applied
  /\ probe.recorded = PostAB /\ probe.incoming = PostAB
  /\ probe.cfg.includeHeaders = {"X-AUTH"} /\ ~probe.cfg.excludeBody
  /\ recordedCallOf(PostAB, Ok200).request.body # PostAB.body
  /\ probe.result.matches

\* a replay session with serial calls, pairwise equivalent under its config,
\* none of which was answered from the loaded fixture
ReplayMissesOnly ==
  /\ isActive /\ ReplayReady /\ sess.mode = "replay"
  /\ sess.serial /\ ~sess.threw /\ ~sess.hit
  /\ sess.reqs # {} /\ PairwiseEquivalent(sess.cfg, sess.reqs)

\* C39: in a replay session with serial calls, the pairwise-equivalent calls
\* that have no stored match cause exactly one live call and add exactly one
\* exchange to the fixture: a call equivalent to an earlier call of the
\* session is answered without an error and without a live call, and when
\* the session ends it has issued one live call and its fixture holds the
\* loaded exchanges plus one.
C39_ReplayFallbackDedup ==
  /\ [][\A p \in Procs, req \in Requests :
          ( /\ ReplayMissesOnly /\ PairwiseEquivalent(sess.cfg, sess.reqs \cup {req})
            /\ FetchCall(p, req) )
          => (res'[p].how = "ok" /\ liveCalls' = liveCalls)]_vars
  /\ [][\A p \in Procs :
          (ReplayMissesOnly /\ DoneBegin(p))
          => /\ sess.live = 1
             /\ Len(CallsAt(FixturePath(sess.name, sess.cfg))')
                  = Len(LoadedCalls) + 1]_vars

====
